---- MODULE Spec2Model ----
(***************************************************************************)
(* Store monitoring backend: the report job table of app/api/report.py and *)
(* the uptime/downtime calculation of app/services/report_calculator.py.   *)
(*                                                                         *)
(* Instants are whole seconds.  A UTC instant t is the number of seconds   *)
(* since a Monday 00:00:00 UTC; a local instant is a UTC instant shifted   *)
(* by the timezone's UTC offset.  Durations the code keeps as float        *)
(* minutes are kept here in seconds (minutes * 60), so that no fraction is *)
(* lost.                                                                   *)
(***************************************************************************)
EXTENDS Integers, Sequences, FiniteSets, TLC

VARIABLES
    store_status,      \* rows of table store_status: [store_id, timestamp_utc, status]
    business_hours_db, \* rows of table business_hours: [store_id, day_of_week, start_time_local, end_time_local]
    store_timezone,    \* rows of table store_timezone: [store_id, timezone_str]
    reports_cache,     \* report.py:26, report_id -> [status, data]
    background_tasks,  \* tasks handed to BackgroundTasks.add_task and not yet run
    uuid_count,        \* how many report ids uuid4() has produced
    returned_ids,      \* the report ids trigger_report has returned to a client
    response,          \* the last HTTP response
    probed,            \* which function was applied last: "None", "membership", "period", "report"
    dt_local,          \* membership probe: the local instant asked about
    within,            \* membership probe: what is_within_business_hours returned
    period,            \* accumulator probe: [start, end] of the window, UTC
    timeline,          \* accumulator probe: what get_status_for_period returned
    totals,            \* accumulator probe: [uptime, downtime] returned, in seconds
    report             \* report probe: the row generate_report_for_store returned

vars == <<store_status, business_hours_db, store_timezone, reports_cache,
          background_tasks, uuid_count, returned_ids, response,
          probed, dt_local, within, period, timeline, totals, report>>

jobVars == <<reports_cache, background_tasks, uuid_count, returned_ids, response>>
probeVars == <<probed, dt_local, within, period, timeline, totals, report>>

(***************************************************************************)
(* Bounds of the model.                                                    *)
(***************************************************************************)
MaxReports == 3
MaxStores == 2
MaxObservations == 2

(***************************************************************************)
(* Program constants.                                                      *)
(***************************************************************************)
SecondsPerMinute == 60
SecondsPerHour == 3600
SecondsPerDay == 86400
DaysPerWeek == 7
DefaultStart == 0
DefaultEnd == 86399

NoValue == "None"

StoreIds == 1..MaxStores
ReportIds == 1..MaxReports

\* models.py:12-14
StoreStatusEnum == {"active", "inactive"}

\* models.py:16-19: the members the enumeration defines
ReportStatusEnum == {"running", "complete", "failed"}

(***************************************************************************)
(* The observation table.                                                  *)
(***************************************************************************)
Observation(s, t, st) == [store_id |-> s, timestamp_utc |-> t, status |-> st]

\* func.max(StoreStatus.timestamp_utc) over the whole table, which is None
\* (here: no instant, the empty set) on an empty table
MaxTimestamp(rows) ==
    {t \in {o.timestamp_utc : o \in rows} : \A o \in rows : o.timestamp_utc <= t}

\* What a cache entry's "data" holds: None, the row list, or the error dictionary
NoData == [kind |-> "None"]
RowList(rows) == [kind |-> "rows", rows |-> rows]
ErrorDescriptor(e) ==
    [kind |-> "error", error |-> e, message |-> "Report generation failed."]

(***************************************************************************)
(* Store configuration (report_calculator.py:11-36).                       *)
(***************************************************************************)
\* pytz.timezone(name).utcoffset, standard time; the zones the model knows
KnownTimezones == {"America/Chicago", "Asia/Kolkata", "UTC"}

UtcOffset(timezone_str) ==
    CASE timezone_str = "America/Chicago" -> 0 - 6 * SecondsPerHour
      [] timezone_str = "Asia/Kolkata" -> 5 * SecondsPerHour + 30 * SecondsPerMinute
      [] OTHER -> 0

default_timezone_str == "America/Chicago"

Slot(start, end) == [start |-> start, end |-> end]

\* get_store_config: [timezone_obj, business_hours]; business_hours maps the
\* days that have rules to their slots
get_store_config(store_id) ==
    LET tz_rows == {r \in store_timezone : r.store_id = store_id}
        store_tz_record == IF tz_rows = {} THEN NoValue
                           ELSE (CHOOSE r \in tz_rows : TRUE).timezone_str
        timezone_str == IF store_tz_record \in KnownTimezones THEN store_tz_record
                        ELSE default_timezone_str
        business_hours_records == {r \in business_hours_db : r.store_id = store_id}
        rule_days == {r.day_of_week : r \in business_hours_records}
    IN [timezone_obj |-> UtcOffset(timezone_str),
        business_hours |->
            IF business_hours_records # {}
            THEN [day \in rule_days |->
                     {Slot(r.start_time_local, r.end_time_local) :
                          r \in {x \in business_hours_records : x.day_of_week = day}}]
            ELSE [day \in 0..(DaysPerWeek - 1) |-> {Slot(DefaultStart, DefaultEnd)}]]

(***************************************************************************)
(* Membership (report_calculator.py:38-55).                                *)
(***************************************************************************)
\* datetime.weekday(): Monday is 0
Weekday(dt) == (dt \div SecondsPerDay) % DaysPerWeek
\* datetime.time()
TimeOfDay(dt) == dt % SecondsPerDay

\* one slot of the instant's own day
SlotCovers(bh_slot, current_time) ==
    IF bh_slot.start < bh_slot.end
    THEN bh_slot.start <= current_time /\ current_time < bh_slot.end
    ELSE current_time >= bh_slot.start \/ current_time < bh_slot.end

is_within_business_hours(dt, business_hours) ==
    LET day_of_week == Weekday(dt)
        current_time == TimeOfDay(dt)
    IN IF day_of_week \notin DOMAIN business_hours THEN FALSE
       ELSE \E bh_slot \in business_hours[day_of_week] :
                SlotCovers(bh_slot, current_time)

(***************************************************************************)
(* Overlap (report_calculator.py:57-73), in seconds.                       *)
(***************************************************************************)
Min(a, b) == IF a < b THEN a ELSE b
Max(a, b) == IF a > b THEN a ELSE b

\* datetime.astimezone(timezone_obj)
AsTimezone(dt_utc, timezone_offset) == dt_utc + timezone_offset

\* the while loop of lines 65-72: step k starts k minutes after current_dt_local
\* and is clipped to end_dt_local; a step counts when its first instant is in
\* business hours.  The steps first..last are summed by halves, which keeps the
\* evaluation shallow for a window of a week.
RECURSIVE OverlapSteps(_, _, _, _, _)
OverlapSteps(first, last, current_dt_local, end_dt_local, business_hours) ==
    IF first > last THEN 0
    ELSE IF first = last
    THEN LET step_start_local == current_dt_local + first * SecondsPerMinute
             next_minute_local == step_start_local + SecondsPerMinute
             segment_end_local == Min(next_minute_local, end_dt_local)
         IN IF is_within_business_hours(step_start_local, business_hours)
            THEN segment_end_local - step_start_local
            ELSE 0
    ELSE LET middle == (first + last) \div 2
         IN OverlapSteps(first, middle, current_dt_local, end_dt_local, business_hours)
              + OverlapSteps(middle + 1, last, current_dt_local, end_dt_local,
                             business_hours)

OverlapLoop(current_dt_local, end_dt_local, business_hours) ==
    IF ~(current_dt_local < end_dt_local) THEN 0
    ELSE LET steps == (end_dt_local - current_dt_local + SecondsPerMinute - 1)
                          \div SecondsPerMinute
         IN OverlapSteps(0, steps - 1, current_dt_local, end_dt_local, business_hours)

calculate_overlap_minutes(start_dt_utc, end_dt_utc, business_hours, timezone_offset) ==
    LET current_dt_local == AsTimezone(start_dt_utc, timezone_offset)
        end_dt_local == AsTimezone(end_dt_utc, timezone_offset)
    IN IF current_dt_local >= end_dt_local THEN 0
       ELSE OverlapLoop(current_dt_local, end_dt_local, business_hours)

(***************************************************************************)
(* Timeline (report_calculator.py:76-95).                                  *)
(***************************************************************************)
Entry(t, st) == [timestamp_utc |-> t, status |-> st]

\* rows ordered by timestamp_utc, as a sequence of entries
RECURSIVE OrderByTimestamp(_)
OrderByTimestamp(rows) ==
    IF rows = {} THEN <<>>
    ELSE LET first == CHOOSE o \in rows :
                          \A x \in rows : o.timestamp_utc <= x.timestamp_utc
         IN <<Entry(first.timestamp_utc, first.status)>>
              \o OrderByTimestamp(rows \ {first})

\* the timeline without the entry lines 87-94 put in front
get_status_for_period_no_prior(store_id, start_time_utc, end_time_utc) ==
    OrderByTimestamp({o \in store_status :
                          /\ o.store_id = store_id
                          /\ o.timestamp_utc >= start_time_utc
                          /\ o.timestamp_utc <= end_time_utc})

\* the timeline with the last row before the window put in front as it is,
\* under its own timestamp
get_status_for_period_prior_row(store_id, start_time_utc, end_time_utc) ==
    LET observations ==
            OrderByTimestamp({o \in store_status :
                                  /\ o.store_id = store_id
                                  /\ o.timestamp_utc >= start_time_utc
                                  /\ o.timestamp_utc <= end_time_utc})
        before == {o \in store_status :
                       o.store_id = store_id /\ o.timestamp_utc < start_time_utc}
        last_known == {o \in before :
                           \A x \in before : x.timestamp_utc <= o.timestamp_utc}
    IN IF last_known # {}
          /\ (observations = <<>> \/ observations[1].timestamp_utc # start_time_utc)
       THEN OrderByTimestamp(last_known) \o observations
       ELSE observations

get_status_for_period(store_id, start_time_utc, end_time_utc) ==
    LET observations ==
            OrderByTimestamp({o \in store_status :
                                  /\ o.store_id = store_id
                                  /\ o.timestamp_utc >= start_time_utc
                                  /\ o.timestamp_utc <= end_time_utc})
        before == {o \in store_status :
                       o.store_id = store_id /\ o.timestamp_utc < start_time_utc}
        last_known == {o \in before :
                           \A x \in before : x.timestamp_utc <= o.timestamp_utc}
    IN IF last_known # {}
          /\ (observations = <<>> \/ observations[1].timestamp_utc # start_time_utc)
       THEN <<Entry(start_time_utc, (CHOOSE o \in last_known : TRUE).status)>>
              \o observations
       ELSE observations

(***************************************************************************)
(* Accumulator (report_calculator.py:98-155), in seconds.                  *)
(***************************************************************************)
\* uptime and downtime with bh_overlap added under current_status (138-141)
Attribute(acc, current_status, bh_overlap) ==
    IF current_status = "active"
    THEN [acc EXCEPT !.uptime = @ + bh_overlap]
    ELSE IF current_status = "inactive"
    THEN [acc EXCEPT !.downtime = @ + bh_overlap]
    ELSE acc

\* the for loop of lines 126-144 from observation i on, then the tail of
\* lines 146-153
RECURSIVE AccumulateFrom(_, _, _, _, _, _, _, _)
AccumulateFrom(observations, i, current_status, last_processed_timestamp_utc, acc, window, business_hours, timezone_offset) ==
    IF i > Len(observations)
    THEN IF last_processed_timestamp_utc < window.end /\ current_status # NoValue
         THEN Attribute(acc, current_status,
                        calculate_overlap_minutes(last_processed_timestamp_utc, window.end,
                                                  business_hours, timezone_offset))
         ELSE acc
    ELSE LET obs == observations[i]
             segment_end_utc == obs.timestamp_utc
             overlap_start_utc == Max(last_processed_timestamp_utc, window.start)
             overlap_end_utc == Min(segment_end_utc, window.end)
             counted ==
                 IF /\ last_processed_timestamp_utc < segment_end_utc
                    /\ current_status # NoValue
                    /\ overlap_start_utc < overlap_end_utc
                 THEN Attribute(acc, current_status,
                                calculate_overlap_minutes(overlap_start_utc, overlap_end_utc,
                                                          business_hours, timezone_offset))
                 ELSE acc
         IN AccumulateFrom(observations, i + 1, obs.status, obs.timestamp_utc, counted,
                           window, business_hours, timezone_offset)

\* the accumulator with the empty timeline taken as offline for the whole window
calculate_uptime_downtime_for_period_assume_offline(store_id, period_start_utc, period_end_utc, timezone_offset, business_hours) ==
    LET observations == get_status_for_period(store_id, period_start_utc, period_end_utc)
        zero == [uptime |-> 0, downtime |-> 0]
        window == [start |-> period_start_utc, end |-> period_end_utc]
    IN IF observations = <<>>
       THEN [uptime |-> 0,
             downtime |-> calculate_overlap_minutes(period_start_utc, period_end_utc,
                                                    business_hours, timezone_offset)]
       ELSE IF observations[1].timestamp_utc = period_start_utc
       THEN AccumulateFrom(observations, 2, observations[1].status, period_start_utc,
                           zero, window, business_hours, timezone_offset)
       ELSE AccumulateFrom(observations, 1, NoValue, period_start_utc,
                           zero, window, business_hours, timezone_offset)

calculate_uptime_downtime_for_period(store_id, period_start_utc, period_end_utc, timezone_offset, business_hours) ==
    LET observations == get_status_for_period(store_id, period_start_utc, period_end_utc)
        zero == [uptime |-> 0, downtime |-> 0]
        window == [start |-> period_start_utc, end |-> period_end_utc]
    IN IF observations = <<>>
       THEN \* lines 110-113
            [uptime |-> calculate_overlap_minutes(period_start_utc, period_end_utc,
                                                  business_hours, timezone_offset),
             downtime |-> 0]
       ELSE IF observations[1].timestamp_utc = period_start_utc
       THEN \* lines 121-123: the first entry seeds the status and is popped
            AccumulateFrom(observations, 2, observations[1].status, period_start_utc,
                           zero, window, business_hours, timezone_offset)
       ELSE AccumulateFrom(observations, 1, NoValue, period_start_utc,
                           zero, window, business_hours, timezone_offset)

(***************************************************************************)
(* A later block of report_calculator.py: the per-store report row         *)
(* (lines 158-184).                                                        *)
(***************************************************************************)
\* math.ceil(seconds / unit) for seconds >= 0
CeilDiv(seconds, unit) == (seconds + unit - 1) \div unit

generate_report_for_store(store_id, current_timestamp_utc) ==
    LET config == get_store_config(store_id)
        hour == calculate_uptime_downtime_for_period(store_id,
                    current_timestamp_utc - SecondsPerHour, current_timestamp_utc,
                    config.timezone_obj, config.business_hours)
        day == calculate_uptime_downtime_for_period(store_id,
                    current_timestamp_utc - SecondsPerDay, current_timestamp_utc,
                    config.timezone_obj, config.business_hours)
        week == calculate_uptime_downtime_for_period(store_id,
                    current_timestamp_utc - DaysPerWeek * SecondsPerDay,
                    current_timestamp_utc,
                    config.timezone_obj, config.business_hours)
    IN [store_id |-> store_id,
        uptime_last_hour |-> CeilDiv(hour.uptime, SecondsPerMinute),
        downtime_last_hour |-> CeilDiv(hour.downtime, SecondsPerMinute),
        uptime_last_day |-> CeilDiv(day.uptime, SecondsPerHour),
        downtime_last_day |-> CeilDiv(day.downtime, SecondsPerHour),
        uptime_last_week |-> CeilDiv(week.uptime, SecondsPerHour),
        downtime_last_week |-> CeilDiv(week.downtime, SecondsPerHour)]

(***************************************************************************)
(* HTTP responses.                                                         *)
(***************************************************************************)
HTTP_200_OK == 200
HTTP_404_NOT_FOUND == 404
HTTP_500_INTERNAL_SERVER_ERROR == 500

\* report_id 0: the reply names no report
Reply(op, code, id, body) ==
    [op |-> op, status_code |-> code, report_id |-> id, body |-> body]

\* report.py:127-135
expected_columns_order ==
    <<"store_id", "uptime_last_hour", "uptime_last_day", "uptime_last_week",
      "downtime_last_hour", "downtime_last_day", "downtime_last_week">>

\* pd.DataFrame(report_data).columns: the keys of the row dictionaries
DataFrameColumns(report_data) ==
    UNION {DOMAIN report_data[i] : i \in 1..Len(report_data)}

IsColumn(cols, col) == col \in cols

\* report.py:139
final_columns(report_data) ==
    LET cols == DataFrameColumns(report_data)
        keep(col) == IsColumn(cols, col)
    IN SelectSeq(expected_columns_order, keep)

(***************************************************************************)
(* POST /trigger_report                                                    *)
(***************************************************************************)
trigger_report ==
    /\ uuid_count < MaxReports
    /\ LET report_id == uuid_count + 1
           current_timestamp_utc_db == MaxTimestamp(store_status)
       IN /\ uuid_count' = uuid_count + 1
          /\ IF current_timestamp_utc_db = {}
             THEN \* report.py:75-79
                  /\ response' = Reply("trigger_report", HTTP_404_NOT_FOUND, 0,
                                       "No store status data found")
                  /\ UNCHANGED <<reports_cache, background_tasks, returned_ids>>
             ELSE IF "pending" \notin ReportStatusEnum
             THEN \* report.py:87: ReportStatusEnum.pending raises AttributeError
                  \* while the entry is being built; the handler ends there
                  /\ response' = Reply("trigger_report", HTTP_500_INTERNAL_SERVER_ERROR,
                                       0, "AttributeError: pending")
                  /\ UNCHANGED <<reports_cache, background_tasks, returned_ids>>
             ELSE \* report.py:87-94
                  /\ reports_cache' = (report_id :> [status |-> "pending", data |-> NoData])
                                         @@ reports_cache
                  /\ background_tasks' = Append(background_tasks,
                         [report_id |-> report_id,
                          current_timestamp_utc |->
                              CHOOSE t \in current_timestamp_utc_db : TRUE])
                  /\ returned_ids' = returned_ids \cup {report_id}
                  /\ response' = Reply("trigger_report", HTTP_200_OK, report_id, "pending")
    /\ UNCHANGED <<store_status, business_hours_db, store_timezone, probeVars>>

(***************************************************************************)
(* The background task (report.py:29-59).  The coroutine holds no await,   *)
(* so the event loop runs it from its first line to its last with no       *)
(* request handler in between: it is one step.  It runs only for a task    *)
(* trigger_report has scheduled.                                           *)
(***************************************************************************)
\* db.query(StoreStatus.store_id).distinct().all(): the distinct store ids, in
\* an order the database chooses
DistinctStoreIdLists ==
    LET ids == {o.store_id : o \in store_status}
    IN {list \in [1..Cardinality(ids) -> ids] :
            \A i, j \in 1..Cardinality(ids) : list[i] = list[j] => i = j}

generate_report_task(task) ==
    /\ background_tasks # <<>>
    /\ task = Head(background_tasks)
    /\ background_tasks' = Tail(background_tasks)
    /\ task.report_id \in DOMAIN reports_cache
    /\ \E all_store_ids_list \in DistinctStoreIdLists :
       \E raised_at \in 0..Len(all_store_ids_list) :
           \* raised_at = 0: no call of generate_report_for_store raises
           LET report_results ==
                   [i \in 1..Len(all_store_ids_list) |->
                        generate_report_for_store(all_store_ids_list[i],
                                                  task.current_timestamp_utc)]
           IN reports_cache' =
                  [reports_cache EXCEPT ![task.report_id] =
                       IF raised_at = 0
                       THEN \* lines 47-48
                            [status |-> "complete", data |-> RowList(report_results)]
                       ELSE \* lines 52-53
                            [status |-> "failed",
                             data |-> ErrorDescriptor("generate_report_for_store")]]
    /\ UNCHANGED <<uuid_count, returned_ids, response>>
    /\ UNCHANGED <<store_status, business_hours_db, store_timezone, probeVars>>

(***************************************************************************)
(* GET /get_report/{report_id}                                             *)
(***************************************************************************)
\* reports_cache.get(report_id)
CacheGet(report_id) ==
    IF report_id \in DOMAIN reports_cache THEN reports_cache[report_id]
    ELSE [status |-> NoValue, data |-> NoData]

\* a lookup that creates the entry it misses (reports_cache.setdefault)
get_report_setdefault(report_id) ==
    /\ reports_cache' = IF report_id \in DOMAIN reports_cache THEN reports_cache
                        ELSE (report_id :> [status |-> "running", data |-> NoData])
                                 @@ reports_cache
    /\ response' = Reply("get_report", HTTP_200_OK, report_id, "running")
    /\ UNCHANGED <<background_tasks, uuid_count, returned_ids>>
    /\ UNCHANGED <<store_status, business_hours_db, store_timezone, probeVars>>

get_report(report_id) ==
    /\ LET report_entry == CacheGet(report_id)
       IN IF report_entry.status = NoValue
          THEN \* report.py:106-110
               response' = Reply("get_report", HTTP_404_NOT_FOUND, report_id, "not found")
          ELSE IF report_entry.status = "complete"
          THEN IF report_entry.data = NoData \/ report_entry.data = RowList(<<>>)
               THEN \* report.py:116-121
                    response' = Reply("get_report", HTTP_500_INTERNAL_SERVER_ERROR,
                                      report_id, "Report data is missing after completion.")
               ELSE \* report.py:124-153
                    response' = Reply("get_report", HTTP_200_OK, report_id,
                                      [columns |-> final_columns(report_entry.data.rows),
                                       rows |-> report_entry.data.rows])
          ELSE IF report_entry.status = "failed"
          THEN \* report.py:154-159
               response' = Reply("get_report", HTTP_500_INTERNAL_SERVER_ERROR,
                                 report_id, report_entry.data)
          ELSE \* report.py:160-163
               response' = Reply("get_report", HTTP_200_OK, report_id, report_entry.status)
    /\ UNCHANGED <<reports_cache, background_tasks, uuid_count, returned_ids>>
    /\ UNCHANGED <<store_status, business_hours_db, store_timezone, probeVars>>

(***************************************************************************)
(* The job table under client requests.  The observation table is loaded   *)
(* before the server starts and is not written while it runs.              *)
(***************************************************************************)
JobTimes == {100, 200}

JobObservations ==
    {Observation(s, t, st) : s \in StoreIds, t \in JobTimes, st \in StoreStatusEnum}

NoReply == Reply(NoValue, 0, 0, NoValue)

\* no row computed yet
NoReport ==
    [store_id |-> 0,
     uptime_last_hour |-> 0, downtime_last_hour |-> 0,
     uptime_last_day |-> 0, downtime_last_day |-> 0,
     uptime_last_week |-> 0, downtime_last_week |-> 0]

Init ==
    /\ store_status \in {rows \in SUBSET JobObservations :
                             Cardinality(rows) <= MaxObservations}
    /\ business_hours_db = {}
    /\ store_timezone = {}
    /\ reports_cache = <<>>
    /\ background_tasks = <<>>
    /\ uuid_count = 0
    /\ returned_ids = {}
    /\ response = NoReply
    /\ probed = NoValue
    /\ dt_local = 0
    /\ within = FALSE
    /\ period = [start |-> 0, end |-> 0]
    /\ timeline = <<>>
    /\ totals = [uptime |-> 0, downtime |-> 0]
    /\ report = NoReport

\* Every report id a client may ask for: those uuid4() can produce here.
\* generate_report_task is no disjunct: no task is ever scheduled (see
\* TaskNeverScheduled), so it contributes no step.
Next ==
    \/ trigger_report
    \/ \E report_id \in ReportIds : get_report(report_id)

Spec == Init /\ [][Next]_vars

(***************************************************************************)
(* Membership of a local instant, over the schedules of one store.         *)
(***************************************************************************)
BusinessHoursRule(s, day, start, end) ==
    [store_id |-> s, day_of_week |-> day,
     start_time_local |-> start, end_time_local |-> end]

\* Monday, Tuesday and Sunday rules: a day slot 09:00-17:00 and an overnight
\* slot 22:00-06:00
MembershipRules ==
    {BusinessHoursRule(1, day, slot.start, slot.end) :
         day \in {0, 1, DaysPerWeek - 1},
         slot \in {Slot(9 * SecondsPerHour, 17 * SecondsPerHour),
                   Slot(22 * SecondsPerHour, 6 * SecondsPerHour)}}

\* every weekday at 00:00:00, 05:00:00, 06:00:00, 12:00:00, 23:00:00, 23:59:59
LocalInstants ==
    {day * SecondsPerDay + t :
         day \in 0..(DaysPerWeek - 1),
         t \in {0, 5 * SecondsPerHour, 6 * SecondsPerHour, 12 * SecondsPerHour,
                23 * SecondsPerHour, SecondsPerDay - 1}}

InitMembership ==
    /\ store_status = {}
    /\ business_hours_db \in SUBSET MembershipRules
    /\ store_timezone = {}
    /\ reports_cache = <<>>
    /\ background_tasks = <<>>
    /\ uuid_count = 0
    /\ returned_ids = {}
    /\ response = NoReply
    /\ probed = NoValue
    /\ dt_local = 0
    /\ within = FALSE
    /\ period = [start |-> 0, end |-> 0]
    /\ timeline = <<>>
    /\ totals = [uptime |-> 0, downtime |-> 0]
    /\ report = NoReport

probe_membership(dt) ==
    /\ probed' = "membership"
    /\ dt_local' = dt
    /\ within' = is_within_business_hours(dt, get_store_config(1).business_hours)
    /\ UNCHANGED <<store_status, business_hours_db, store_timezone, jobVars,
                   period, timeline, totals, report>>

NextMembership == \E dt \in LocalInstants : probe_membership(dt)

SpecMembership == InitMembership /\ [][NextMembership]_vars

(***************************************************************************)
(* The accumulator over one-hour windows of one store.  Observations of a  *)
(* store carry distinct timestamps here: the order of equal timestamps is  *)
(* the database's choice.                                                  *)
(***************************************************************************)
\* Tuesday 18:00:00 UTC (12:00:00 in America/Chicago)
Noon == SecondsPerDay + 18 * SecondsPerHour
\* Tuesday 23:59:30 UTC (17:59:30 in America/Chicago)
Close == SecondsPerDay + 23 * SecondsPerHour + 59 * SecondsPerMinute + 30

ReferenceInstants == {Noon, Close}

PeriodTimes ==
    {Noon - 90 * SecondsPerMinute, Noon - 30 * SecondsPerMinute,
     Close - 90 * SecondsPerMinute, Close - SecondsPerHour,
     Close - SecondsPerHour + 15, Close}

PeriodObservations ==
    {Observation(1, t, st) : t \in PeriodTimes, st \in StoreStatusEnum}

PeriodSchedules ==
    {{},
     {BusinessHoursRule(1, 1, 9 * SecondsPerHour, 17 * SecondsPerHour)},
     {BusinessHoursRule(1, 1, 22 * SecondsPerHour, 6 * SecondsPerHour)}}

StoreTimezone(s, name) == [store_id |-> s, timezone_str |-> name]

InitPeriod ==
    /\ store_status \in
           {rows \in SUBSET PeriodObservations :
                /\ Cardinality(rows) <= MaxObservations
                /\ \A a, b \in rows : a.timestamp_utc = b.timestamp_utc => a = b}
    /\ business_hours_db \in PeriodSchedules
    /\ store_timezone \in {{}, {StoreTimezone(1, "UTC")}}
    /\ reports_cache = <<>>
    /\ background_tasks = <<>>
    /\ uuid_count = 0
    /\ returned_ids = {}
    /\ response = NoReply
    /\ probed = NoValue
    /\ dt_local = 0
    /\ within = FALSE
    /\ period = [start |-> 0, end |-> 0]
    /\ timeline = <<>>
    /\ totals = [uptime |-> 0, downtime |-> 0]
    /\ report = NoReport

probe_period(current_timestamp_utc) ==
    LET config == get_store_config(1)
        period_start_utc == current_timestamp_utc - SecondsPerHour
    IN /\ probed' = "period"
       /\ period' = [start |-> period_start_utc, end |-> current_timestamp_utc]
       /\ timeline' = get_status_for_period(1, period_start_utc, current_timestamp_utc)
       /\ totals' = calculate_uptime_downtime_for_period(1, period_start_utc,
                        current_timestamp_utc, config.timezone_obj,
                        config.business_hours)
       /\ UNCHANGED <<store_status, business_hours_db, store_timezone, jobVars,
                      dt_local, within, report>>

NextPeriod == \E t \in ReferenceInstants : probe_period(t)

SpecPeriod == InitPeriod /\ [][NextPeriod]_vars

(***************************************************************************)
(* The report row of one store at a reference instant.  Store 1 has       *)
(* observations and the default timezone; every other store has no         *)
(* observation at all.                                                     *)
(***************************************************************************)
ReportTimes == {Noon - 90 * SecondsPerMinute, Close - SecondsPerHour + 15}

ReportObservations ==
    {Observation(1, t, st) : t \in ReportTimes, st \in StoreStatusEnum}

InitReport ==
    /\ store_status \in
           {rows \in SUBSET ReportObservations :
                /\ Cardinality(rows) <= MaxObservations
                /\ \A a, b \in rows : a.timestamp_utc = b.timestamp_utc => a = b}
    /\ business_hours_db \in PeriodSchedules
    /\ store_timezone = {}
    /\ reports_cache = <<>>
    /\ background_tasks = <<>>
    /\ uuid_count = 0
    /\ returned_ids = {}
    /\ response = NoReply
    /\ probed = NoValue
    /\ dt_local = 0
    /\ within = FALSE
    /\ period = [start |-> 0, end |-> 0]
    /\ timeline = <<>>
    /\ totals = [uptime |-> 0, downtime |-> 0]
    /\ report = NoReport

probe_report(store_id, current_timestamp_utc) ==
    /\ probed' = "report"
    /\ period' = [start |-> current_timestamp_utc - SecondsPerHour,
                  end |-> current_timestamp_utc]
    /\ report' = generate_report_for_store(store_id, current_timestamp_utc)
    /\ UNCHANGED <<store_status, business_hours_db, store_timezone, jobVars,
                   dt_local, within, timeline, totals>>

NextReport ==
    \E store_id \in StoreIds, t \in ReferenceInstants : probe_report(store_id, t)

SpecReport == InitReport /\ [][NextReport]_vars

(***************************************************************************)
(* Properties.                                                             *)
(***************************************************************************)
HasObservations == store_status # {}

\* C1: when at least one observation exists, trigger_report records a new job
\* in the pending state and returns its id (the first step of the lifecycle
\* pending -> running -> complete).
C1_SubmitRecordsPendingJob ==
    (response.op = "trigger_report" /\ HasObservations)
        => /\ response.status_code = HTTP_200_OK
           /\ response.report_id \in DOMAIN reports_cache
           /\ reports_cache[response.report_id].status = "pending"

\* What the handler does instead: no entry is recorded, no id returned
NoJobEverRecorded ==
    reports_cache = <<>> /\ returned_ids = {}

\* and no task is scheduled, so the background task never runs
TaskNeverScheduled ==
    /\ background_tasks = <<>>
    /\ \A report_id \in ReportIds :
           ~ENABLED generate_report_task([report_id |-> report_id,
                                          current_timestamp_utc |-> 0])

\* C6: get_report with an id no trigger_report call has returned answers
\* not found and leaves reports_cache as it was; get_report with an id that
\* trigger_report has returned never answers not found.
C6_UnknownIdNotFound ==
    /\ [](response.op = "get_report"
             => (response.report_id \notin returned_ids
                    <=> response.status_code = HTTP_404_NOT_FOUND))
    /\ [][(response'.op = "get_report" /\ response'.report_id \notin returned_ids)
             => reports_cache' = reports_cache]_vars

C6_Witness ==
    /\ response.op = "get_report"
    /\ response.report_id \notin returned_ids
    /\ response.status_code = HTTP_404_NOT_FOUND
    /\ uuid_count > 0
    /\ HasObservations

\* C7: for a store with no business-hours rules, the synthesized schedule makes
\* is_within_business_hours true for every local instant, 23:59:59 included.
C7_NoRulesAlwaysOpen ==
    (probed = "membership" /\ business_hours_db = {}) => within

\* C8: a slot on weekday d with start > end covers day d from start on and the
\* next calendar day d+1 before end, and nothing else: with that slot as the
\* store's only rule, an instant is a member exactly when it lies in one of
\* those two ranges.
C8_OvernightWrapsIntoNextDay ==
    \A r \in business_hours_db :
        (/\ probed = "membership"
         /\ business_hours_db = {r}
         /\ r.start_time_local > r.end_time_local)
            => (within <=>
                   \/ /\ Weekday(dt_local) = r.day_of_week
                      /\ TimeOfDay(dt_local) >= r.start_time_local
                   \/ /\ Weekday(dt_local) = (r.day_of_week + 1) % DaysPerWeek
                      /\ TimeOfDay(dt_local) < r.end_time_local)

\* the business-hours seconds of the probed window, scanned in one piece
WindowOverlap ==
    LET config == get_store_config(1)
    IN calculate_overlap_minutes(period.start, period.end,
                                 config.business_hours, config.timezone_obj)

\* C9: conservation: for a timeline whose first entry is at period_start, the
\* uptime and downtime returned sum to exactly the business-hours time of the
\* whole window, wherever the checkpoints fall.
C9_Conservation ==
    (/\ probed = "period"
     /\ timeline # <<>>
     /\ timeline[1].timestamp_utc = period.start)
        => totals.uptime + totals.downtime = WindowOverlap

\* every second of the probed window lies in business hours
WindowEntirelyBusinessHours ==
    LET config == get_store_config(1)
    IN \A t \in period.start..(period.end - 1) :
           is_within_business_hours(AsTimezone(t, config.timezone_obj),
                                    config.business_hours)

\* C10: for a store whose only observation is strictly before the window start,
\* the whole window goes to that observation's status: the window's full
\* business-hours time is downtime (and uptime 0) when it is inactive, and the
\* mirror when it is active; an inactive poll 90 minutes before the end of a
\* one-hour window lying entirely in business hours gives downtime_last_hour =
\* 60 and uptime_last_hour = 0.
C10_OnlyPriorObservation ==
    \A o \in store_status :
        (/\ probed = "period"
         /\ store_status = {o}
         /\ o.timestamp_utc < period.start)
            => /\ o.status = "inactive"
                    => totals = [uptime |-> 0, downtime |-> WindowOverlap]
               /\ o.status = "active"
                    => totals = [uptime |-> WindowOverlap, downtime |-> 0]
               /\ (/\ o.status = "inactive"
                   /\ o.timestamp_utc = period.end - 90 * SecondsPerMinute
                   /\ WindowEntirelyBusinessHours)
                    => /\ CeilDiv(totals.downtime, SecondsPerMinute) = 60
                       /\ CeilDiv(totals.uptime, SecondsPerMinute) = 0

C10_Witness ==
    /\ probed = "period"
    /\ \E o \in store_status :
           /\ store_status = {o}
           /\ o.status = "inactive"
           /\ o.timestamp_utc = period.end - 90 * SecondsPerMinute
    /\ WindowEntirelyBusinessHours
    /\ totals = [uptime |-> 0, downtime |-> SecondsPerHour]

\* the minute marks of the last-hour window that lie in the store's business
\* hours: its business-hours minutes
BusinessHoursMinutesLastHour(store_id) ==
    LET config == get_store_config(store_id)
    IN Cardinality({k \in 0..(SecondsPerHour \div SecondsPerMinute - 1) :
           is_within_business_hours(
               AsTimezone(period.start + k * SecondsPerMinute, config.timezone_obj),
               config.business_hours)})

HasNoObservations(store_id) == \A o \in store_status : o.store_id # store_id

\* C11: for a store with no observations at all and reference instant T,
\* generate_report_for_store reports uptime_last_hour equal to the ceiling of the
\* business-hours minutes in [T-1h, T] and downtime_last_hour 0, and zero
\* downtime for the day and week windows.
C11_NoObservationsAssumedOnline ==
    (probed = "report" /\ HasNoObservations(report.store_id))
        => /\ report.uptime_last_hour = BusinessHoursMinutesLastHour(report.store_id)
           /\ report.downtime_last_hour = 0
           /\ report.downtime_last_day = 0
           /\ report.downtime_last_week = 0

C11_Witness ==
    /\ probed = "report"
    /\ HasNoObservations(report.store_id)
    /\ report.uptime_last_hour > 0
    /\ report.uptime_last_hour < SecondsPerHour \div SecondsPerMinute
    /\ report.downtime_last_hour = 0

TimelineOrdered ==
    \A i, j \in 1..Len(timeline) :
        i < j => timeline[i].timestamp_utc <= timeline[j].timestamp_utc

\* the store has an observation at period_start or before it
ObservedByPeriodStart ==
    \E o \in store_status : o.store_id = 1 /\ o.timestamp_utc <= period.start

\* C12 as stated: the timeline returned by get_status_for_period is ordered by
\* timestamp and, whenever it is non-empty, its first entry's timestamp is
\* <= period_start, also when the store has observations inside the window but
\* none before period_start.
C12_FirstEntryNotAfterPeriodStart ==
    probed = "period"
        => /\ TimelineOrdered
           /\ timeline # <<>> => timeline[1].timestamp_utc <= period.start

\* C12 as amended: the timeline is ordered by timestamp; when the store has an
\* observation at or before period_start the timeline is non-empty and its first
\* entry is at exactly period_start; when it has none, a non-empty timeline
\* starts at the first observation inside the window, after period_start.
C12_TimelineOrderedFromPeriodStart ==
    probed = "period"
        => /\ TimelineOrdered
           /\ ObservedByPeriodStart
                => timeline # <<>> /\ timeline[1].timestamp_utc = period.start
           /\ (~ObservedByPeriodStart /\ timeline # <<>>)
                => timeline[1].timestamp_utc > period.start

C12_Witness ==
    /\ probed = "period"
    /\ ~ObservedByPeriodStart
    /\ Len(timeline) = 2
    /\ timeline[1].timestamp_utc > period.start
    /\ timeline[2].timestamp_utc > timeline[1].timestamp_utc

====
